---- MODULE Spec2Model ----
(***************************************************************************)
(* Execution / checkpoint substrate of dozer-core (dag/forwarder.rs):      *)
(* StateWriter, ChannelManager, SourceChannelManager and                   *)
(* ProcessorChannelManager, together with the shared EpochManager and the  *)
(* epoch barrier the sources rendezvous on.                                *)
(***************************************************************************)
EXTENDS Integers, Sequences, FiniteSets, TLC

(* ------------------------------ bounds --------------------------------- *)
\* data operations the sources of a run may send, all together; calls a
\* processor may make before it terminates
MaxSends == 2
\* highest epoch id the epoch manager may cut
MaxEpoch == 2

\* data operations a processor may forward on its bound port when the run
\* is about its table alone
MaxOps == 3

(* --------------------------- configuration ----------------------------- *)
Sources == {"s1", "s2"}
Processors == {"p1"}
Nodes == Sources \cup Processors

\* Option::None of an epoch handed back by advance
NoEpoch == [id |-> 0, forced |-> FALSE]

\* what a call returned: Result<bool, ExecutionError>, or nothing yet
NoResult == [tag |-> "None", val |-> FALSE, err |-> ""]
\* a call that reports a forced cut whatever happened
RetOk_AlwaysTrue(v) == [tag |-> "Ok", val |-> TRUE, err |-> ""]

RetOk(v) == [tag |-> "Ok", val |-> v, err |-> ""]
RetErr(e) == [tag |-> "Err", val |-> FALSE, err |-> e]

\* Records are tuples of field values; field 1 is the primary index.
Keys == {1, 2}
Vals == {7, 8}
Records == {<<k, v>> : k \in Keys, v \in Vals}

\* Schema.primary_index of every output schema
primary_index == <<1>>

\* ChannelManager.stateful
stateful == [n \in Nodes |-> n # "s2"]

\* StateWriter.dbs : ports with a bound Storage Handle (StateOptions)
DbPorts(n) ==
    CASE n = "s1" -> {1}
      [] n = "s2" -> {}
      [] n = "p1" -> {1, 3, 4}

\* StateWriter.output_schemas : ports with an output schema
SchemaPorts(n) ==
    CASE n = "s1" -> {1}
      [] n = "s2" -> {1}
      [] n = "p1" -> {1, 2, 3}

\* ChannelManager.senders : port -> Vec<Sender>, one channel per consumer
senders(n) ==
    CASE n = "s1" -> (1 :> <<"c1">>)
      [] n = "s2" -> (1 :> <<"c2">>)
      [] n = "p1" -> (1 :> <<"c3", "c4">>) @@ (2 :> <<"c5">>)

Ports == 1..4
Chans == {"c1", "c2", "c3", "c4", "c5"}

Range(f) == {f[x] : x \in DOMAIN f}

ChansOf(n) == UNION {Range(senders(n)[p]) : p \in DOMAIN senders(n)}

\* the orders in which a HashMap iteration may visit the ports of a node
PortOrders(n) ==
    LET ps == DOMAIN senders(n)
    IN  {o \in [1..Cardinality(ps) -> ps] : Range(o) = ps}

(* ------------------------------ storage -------------------------------- *)
\* A table is a function from the keys present to their values.
EmptyDb == [x \in {} |-> 0]

Put(db, key, value) ==
    [x \in (DOMAIN db) \cup {key} |-> IF x = key THEN value ELSE db[x]]

Has(db, key) == key \in DOMAIN db

Del(db, key) == [x \in (DOMAIN db) \ {key} |-> db[x]]

\* Record::get_key : the projection of the record on the primary index
get_key(rec, index) == [i \in 1..Len(index) |-> rec[index[i]]]

\* bincode::serialize / deserialize of a Record: length-prefixed field list
serialize(rec) == <<Len(rec)>> \o rec

deserialize(bytes) == SubSeq(bytes, 2, bytes[1] + 1)

\* byte j (0 = least significant) of the unsigned integer x
RECURSIVE ByteOf(_, _)
ByteOf(x, j) == IF j = 0 THEN x % 256 ELSE ByteOf(x \div 256, j - 1)

\* the eight bytes of x, least significant first
to_be_bytes_LittleEndian(x) == [i \in 1..8 |-> ByteOf(x, i - 1)]

\* u64::to_be_bytes
to_be_bytes(x) == [i \in 1..8 |-> ByteOf(x, 8 - i)]

\* u64::from_be_bytes, as a reader of the metadata table decodes a field
RECURSIVE from_be_bytes(_)
from_be_bytes(b) ==
    IF Len(b) = 0 THEN 0
    ELSE from_be_bytes(SubSeq(b, 1, Len(b) - 1)) * 256 + b[Len(b)]

\* dag_metadata::SOURCE_ID_IDENTIFIER, the marker byte of a source position
SOURCE_ID_IDENTIFIER == 0

\* NodeHandle::to_bytes
NodeBytes(n) ==
    CASE n = "s1" -> <<115, 49>>
      [] n = "s2" -> <<115, 50>>
      [] n = "p1" -> <<112, 49>>

(* ------------------------------- state --------------------------------- *)
VARIABLES
    cfg,        \* what the DAG was built with: live sources, StateOptions,
                \* StateWriter.input_ports and input_schemas
    sw,         \* StateWriter.tx of each node: the open transaction and the
                \* durable state left by the last commit_and_renew
    chan,       \* every message ever enqueued on each channel, in order
    rcvd,       \* how many messages the consumer of a channel has dequeued
    alive,      \* whether the Receiver of a channel still exists
    curr_pos,   \* SourceChannelManager.curr_txid, curr_seq_in_tx
    em,         \* the shared EpochManager
    barrier,    \* the Barrier built for each epoch id
    pc,         \* where each node's thread is
    local,      \* the epoch a source was handed in its current / last call
    result,     \* what the last call of a node returned
    persisted,  \* history: epoch ids whose store_commit_info committed
    arrived,    \* history: the sources that called wait() on each barrier
    sends       \* history: the calls of each node that MaxSends bounds

vars == <<cfg, sw, chan, rcvd, alive, curr_pos, em, barrier, pc, local,
          result, persisted, arrived, sends>>

(* ---------------------------- StateWriter ------------------------------ *)
\* StateOptions of a bound port
Opts(n, port) == cfg.opts

write_record(t, port, rec) ==
    LET key == get_key(rec, primary_index)
        value == serialize(rec)
    IN  [t EXCEPT !.dbs[port] = Put(@, key, value)]

\* retr_record that makes up a record when the key holds none
retr_record_MakeUp(t, port, key) ==
    IF ~Has(t.dbs[port], key) THEN [ok |-> TRUE, rec |-> key \o <<7>>]
    ELSE [ok |-> TRUE, rec |-> deserialize(t.dbs[port][key])]

retr_record(t, port, key) ==
    IF ~Has(t.dbs[port], key) THEN [ok |-> FALSE, err |-> "RecordNotFound"]
    ELSE [ok |-> TRUE, rec |-> deserialize(t.dbs[port][key])]

\* ResolveOld that never looks the record up
ResolveOld_KeepCaller(t, port, old, retrieve) == [ok |-> TRUE, rec |-> old]

\* ResolveOld that looks the record up whatever the options say
ResolveOld_AlwaysRetrieve(t, port, old, retrieve) ==
    retr_record(t, port, get_key(old, primary_index))

\* the record a Delete / Update goes on with as its old
ResolveOld(t, port, old, retrieve) ==
    IF retrieve THEN retr_record(t, port, get_key(old, primary_index))
    ELSE [ok |-> TRUE, rec |-> old]

\* store_op that falls back to some bound table when the port has none
store_op_DefaultDb(t, n, op, port) ==
    IF port \notin DbPorts(n) /\ DbPorts(n) # {} /\ op.kind = "Insert"
    THEN [ok |-> TRUE, op |-> op,
          t |-> write_record(t, CHOOSE q \in DbPorts(n) : TRUE, op.new)]
    ELSE [ok |-> TRUE, op |-> op, t |-> t]

\* store_op whose Update moves the record: the entry under the key of old
\* is removed before new is written
store_op_UpdateMoves(t, n, op, port) ==
    IF port \in DbPorts(n) THEN
        IF port \notin SchemaPorts(n)
        THEN [ok |-> FALSE, err |-> "InvalidPortHandle", t |-> t]
        ELSE CASE op.kind = "Insert" ->
                    [ok |-> TRUE, op |-> [kind |-> "Insert", new |-> op.new],
                     t |-> write_record(t, port, op.new)]
               [] op.kind = "Delete" ->
                    LET key == get_key(op.old, primary_index)
                        r == ResolveOld(t, port, op.old,
                                        Opts(n, port).retrieve_old_record_for_deletes)
                    IN  IF ~r.ok THEN [ok |-> FALSE, err |-> r.err, t |-> t]
                        ELSE [ok |-> TRUE,
                              op |-> [kind |-> "Delete", old |-> r.rec],
                              t |-> [t EXCEPT !.dbs[port] = Del(@, key)]]
               [] op.kind = "Update" ->
                    LET r == ResolveOld(t, port, op.old,
                                        Opts(n, port).retrieve_old_record_for_updates)
                    IN  IF ~r.ok THEN [ok |-> FALSE, err |-> r.err, t |-> t]
                        ELSE [ok |-> TRUE,
                              op |-> [kind |-> "Update", old |-> r.rec,
                                      new |-> op.new],
                              t |-> write_record(
                                        [t EXCEPT !.dbs[port] =
                                             Del(@, get_key(op.old, primary_index))],
                                        port, op.new)]
    ELSE [ok |-> TRUE, op |-> op, t |-> t]

\* StateWriter::store_op on the open transaction t of node n
store_op(t, n, op, port) ==
    IF port \in DbPorts(n) THEN
        IF port \notin SchemaPorts(n)
        THEN [ok |-> FALSE, err |-> "InvalidPortHandle", t |-> t]
        ELSE CASE op.kind = "Insert" ->
                    [ok |-> TRUE, op |-> [kind |-> "Insert", new |-> op.new],
                     t |-> write_record(t, port, op.new)]
               [] op.kind = "Delete" ->
                    LET key == get_key(op.old, primary_index)
                        r == ResolveOld(t, port, op.old,
                                        Opts(n, port).retrieve_old_record_for_deletes)
                    IN  IF ~r.ok THEN [ok |-> FALSE, err |-> r.err, t |-> t]
                        ELSE [ok |-> TRUE,
                              op |-> [kind |-> "Delete", old |-> r.rec],
                              t |-> [t EXCEPT !.dbs[port] = Del(@, key)]]
               [] op.kind = "Update" ->
                    LET r == ResolveOld(t, port, op.old,
                                        Opts(n, port).retrieve_old_record_for_updates)
                    IN  IF ~r.ok THEN [ok |-> FALSE, err |-> r.err, t |-> t]
                        ELSE [ok |-> TRUE,
                              op |-> [kind |-> "Update", old |-> r.rec,
                                      new |-> op.new],
                              t |-> write_record(t, port, op.new)]
    ELSE [ok |-> TRUE, op |-> op, t |-> t]

\* Option<HashMap<PortHandle, Schema>> returned by get_all_input_schemas
OptNone == [tag |-> "OptNone", val |-> EmptyDb, err |-> ""]

OptSome(v) == [tag |-> "OptSome", val |-> v, err |-> ""]

\* get_all_input_schemas that takes a node without declared input ports for
\* one whose ports have all reported
get_all_input_schemas_NoneIsAll(input_ports, input_schemas) ==
    IF \A i \in 1..Len(input_ports.ports) :
           input_ports.ports[i] \in DOMAIN input_schemas
    THEN OptSome(input_schemas)
    ELSE OptNone

\* StateWriter::get_all_input_schemas
get_all_input_schemas(input_ports, input_schemas) ==
    IF input_ports.some
    THEN LET count == Cardinality({i \in 1..Len(input_ports.ports) :
                                     input_ports.ports[i] \notin DOMAIN input_schemas})
         IN  IF count = 0 THEN OptSome(input_schemas) ELSE OptNone
    ELSE OptNone

\* the metadata entry store_commit_info writes for one source position
MetaKey(source) == <<SOURCE_ID_IDENTIFIER>> \o NodeBytes(source)

MetaValue(pos) == to_be_bytes(pos[1]) \o to_be_bytes(pos[2])

\* the loop of store_commit_info on a table emptied first: the entries of
\* the sources the epoch does not name are lost
RECURSIVE PutDetails_Replace(_, _, _)
PutDetails_Replace(meta, details, todo) ==
    IF todo = {} THEN [k \in {MetaKey(x) : x \in DOMAIN details} |-> meta[k]]
    ELSE LET source == CHOOSE x \in todo : TRUE
         IN  PutDetails_Replace(Put(meta, MetaKey(source), MetaValue(details[source])),
                                details, todo \ {source})

RECURSIVE PutDetails(_, _, _)
PutDetails(meta, details, todo) ==
    IF todo = {} THEN meta
    ELSE LET source == CHOOSE x \in todo : TRUE
         IN  PutDetails(Put(meta, MetaKey(source), MetaValue(details[source])),
                        details, todo \ {source})

\* SharedTransaction::commit_and_renew: the open transaction becomes durable
\* and a new one starts from it
commit_and_renew(w) == [w EXCEPT !.committed = w.tx]

\* store_commit_info that writes the positions and leaves the transaction open
store_commit_info_NoCommit(w, epoch_details, io_ok) ==
    LET w1 == [w EXCEPT !.tx.meta =
                    PutDetails(@, epoch_details.details,
                               DOMAIN epoch_details.details)]
    IN  IF io_ok THEN [ok |-> TRUE, w |-> w1]
        ELSE [ok |-> FALSE, err |-> "StorageError", w |-> w1]

\* StateWriter::store_commit_info; io_ok = FALSE is a storage error at commit
store_commit_info(w, epoch_details, io_ok) ==
    LET w1 == [w EXCEPT !.tx.meta =
                    PutDetails(@, epoch_details.details,
                               DOMAIN epoch_details.details)]
    IN  IF io_ok THEN [ok |-> TRUE, w |-> commit_and_renew(w1)]
        ELSE [ok |-> FALSE, err |-> "StorageError", w |-> w1]

(* --------------------------- ChannelManager ---------------------------- *)
\* a conversion that sends a Delete with nothing in its old
ToExec_BlankDelete(op) ==
    CASE op.kind = "Insert" -> [type |-> "Insert", new |-> op.new]
      [] op.kind = "Update" -> [type |-> "Update", old |-> op.old, new |-> op.new]
      [] op.kind = "Delete" -> [type |-> "Delete", old |-> <<>>]

\* Operation -> ExecutorOperation
ToExec(op) ==
    CASE op.kind = "Insert" -> [type |-> "Insert", new |-> op.new]
      [] op.kind = "Update" -> [type |-> "Update", old |-> op.old, new |-> op.new]
      [] op.kind = "Delete" -> [type |-> "Delete", old |-> op.old]

\* a Commit that carries the epoch id without the positions
CommitMsg_IdOnly(epoch_details) ==
    [type |-> "Commit",
     epoch_details |-> [id |-> epoch_details.id, details |-> EmptyDb]]

CommitMsg(epoch_details) == [type |-> "Commit", epoch_details |-> epoch_details]

TerminateMsg == [type |-> "Terminate"]

\* Sender::send : fails once the Receiver is gone
CanSend(c) == alive[c]

\* a broadcast that goes on to the remaining channels after a failure
RECURSIVE SendAll_SkipDead(_, _, _)
SendAll_SkipDead(ch, cs, msg) ==
    IF Len(cs) = 0 THEN [ok |-> TRUE, chan |-> ch]
    ELSE IF ~CanSend(Head(cs))
    THEN [ok |-> FALSE, chan |-> SendAll_SkipDead(ch, Tail(cs), msg).chan]
    ELSE SendAll_SkipDead([ch EXCEPT ![Head(cs)] = Append(@, msg)], Tail(cs), msg)

\* sends msg to the channels cs in order and stops at the first failure
RECURSIVE SendAll(_, _, _)
SendAll(ch, cs, msg) ==
    IF Len(cs) = 0 THEN [ok |-> TRUE, chan |-> ch]
    ELSE IF ~CanSend(Head(cs)) THEN [ok |-> FALSE, chan |-> ch]
    ELSE SendAll([ch EXCEPT ![Head(cs)] = Append(@, msg)], Tail(cs), msg)

\* the senders of node n in the order a walk over the port map visits them
RECURSIVE AllSenders(_, _)
AllSenders(n, order) ==
    IF Len(order) = 0 THEN <<>>
    ELSE senders(n)[Head(order)] \o AllSenders(n, Tail(order))

\* send_op that falls back to the senders of port 1 when the port has none
send_op_DefaultPort(m, n, op, port_id) ==
    LET st == IF stateful[n] THEN store_op(m.w.tx, n, op, port_id)
              ELSE [ok |-> TRUE, op |-> op, t |-> m.w.tx]
        port == IF port_id \in DOMAIN senders(n) THEN port_id ELSE 1
    IN  IF ~st.ok THEN [ok |-> FALSE, err |-> st.err, m |-> m]
        ELSE LET m1 == [m EXCEPT !.w.tx = st.t]
                 r == SendAll(m1.chan, senders(n)[port], ToExec(st.op))
             IN  IF r.ok THEN [ok |-> TRUE, m |-> [m1 EXCEPT !.chan = r.chan]]
                 ELSE [ok |-> FALSE, err |-> "InternalError",
                       m |-> [m1 EXCEPT !.chan = r.chan]]

\* send_op that forwards without going through the State Writer
send_op_SkipStore(m, n, op, port_id) ==
    IF port_id \notin DOMAIN senders(n)
    THEN [ok |-> FALSE, err |-> "InvalidPortHandle", m |-> m]
    ELSE LET r == SendAll(m.chan, senders(n)[port_id], ToExec(op))
         IN  IF r.ok THEN [ok |-> TRUE, m |-> [m EXCEPT !.chan = r.chan]]
             ELSE [ok |-> FALSE, err |-> "InternalError",
                   m |-> [m EXCEPT !.chan = r.chan]]

\* ChannelManager::send_op on m = [w, chan] of node n
send_op(m, n, op, port_id) ==
    LET st == IF stateful[n] THEN store_op(m.w.tx, n, op, port_id)
              ELSE [ok |-> TRUE, op |-> op, t |-> m.w.tx]
    IN  IF ~st.ok THEN [ok |-> FALSE, err |-> st.err, m |-> m]
        ELSE LET m1 == [m EXCEPT !.w.tx = st.t]
             IN  IF port_id \notin DOMAIN senders(n)
                 THEN [ok |-> FALSE, err |-> "InvalidPortHandle", m |-> m1]
                 ELSE LET r == SendAll(m1.chan, senders(n)[port_id], ToExec(st.op))
                      IN  IF r.ok THEN [ok |-> TRUE, m |-> [m1 EXCEPT !.chan = r.chan]]
                          ELSE [ok |-> FALSE, err |-> "InternalError",
                                m |-> [m1 EXCEPT !.chan = r.chan]]

\* send_term_and_wait that has nothing to say on a stateless node
send_term_and_wait_StatefulOnly(m, n, order) ==
    LET r == SendAll(m.chan, IF stateful[n] THEN AllSenders(n, order) ELSE <<>>,
                     TerminateMsg)
    IN  IF r.ok THEN [ok |-> TRUE, m |-> [m EXCEPT !.chan = r.chan]]
        ELSE [ok |-> FALSE, err |-> "InternalError", m |-> [m EXCEPT !.chan = r.chan]]

\* ChannelManager::send_term_and_wait
send_term_and_wait(m, n, order) ==
    LET r == SendAll(m.chan, AllSenders(n, order), TerminateMsg)
    IN  IF r.ok THEN [ok |-> TRUE, m |-> [m EXCEPT !.chan = r.chan]]
        ELSE [ok |-> FALSE, err |-> "InternalError", m |-> [m EXCEPT !.chan = r.chan]]

\* store_and_send_commit with the two steps swapped: the Commit is broadcast
\* before the checkpoint is stored
store_and_send_commit_SendFirst(m, n, epoch_details, io_ok, order) ==
    LET r == SendAll(m.chan, AllSenders(n, order), CommitMsg(epoch_details))
        st == store_commit_info(m.w, epoch_details, io_ok)
    IN  IF ~r.ok
        THEN [ok |-> FALSE, err |-> "InternalError", stored |-> FALSE,
              m |-> [m EXCEPT !.chan = r.chan]]
        ELSE [ok |-> st.ok, err |-> IF st.ok THEN "" ELSE st.err,
              stored |-> st.ok, m |-> [m EXCEPT !.w = st.w, !.chan = r.chan]]

\* ChannelManager::store_and_send_commit; stored tells whether the
\* checkpoint was committed
store_and_send_commit(m, n, epoch_details, io_ok, order) ==
    LET st == store_commit_info(m.w, epoch_details, io_ok)
    IN  IF ~st.ok
        THEN [ok |-> FALSE, err |-> st.err, stored |-> FALSE,
              m |-> [m EXCEPT !.w = st.w]]
        ELSE LET r == SendAll(m.chan, AllSenders(n, order),
                              CommitMsg(epoch_details))
             IN  IF r.ok
                 THEN [ok |-> TRUE, stored |-> TRUE,
                       m |-> [m EXCEPT !.w = st.w, !.chan = r.chan]]
                 ELSE [ok |-> FALSE, err |-> "InternalError", stored |-> TRUE,
                       m |-> [m EXCEPT !.w = st.w, !.chan = r.chan]]

(* ----------------------------- EpochManager ---------------------------- *)
\* EpochManager.commit_max_ops_count: the threshold that cuts an epoch
Threshold == 2

\* the sources registered with the EpochManager
Participants == cfg.live

\* whether this call of advance cuts a new epoch
CutsEpoch(e, delta, force) ==
    e.closing = NoEpoch /\ (e.curr_ops_count + delta >= Threshold \/ force)

\* advance that stamps the epoch it hands back with the caller's own force
\* flag instead of the flag the epoch was cut with
advance_CallerFlag(e, source, delta, force) ==
    LET e1 == IF CutsEpoch(e, delta, force)
              THEN [curr_ops_count |-> 0,
                    curr_epoch |-> e.curr_epoch + 1,
                    closing |-> [id |-> e.curr_epoch, forced |-> force],
                    participated |-> {}]
              ELSE [e EXCEPT !.curr_ops_count = @ + delta]
    IN  IF e1.closing # NoEpoch /\ source \notin e1.participated
        THEN LET p == e1.participated \cup {source}
             IN  [em |-> IF p = Participants
                         THEN [e1 EXCEPT !.closing = NoEpoch, !.participated = {}]
                         ELSE [e1 EXCEPT !.participated = p],
                  epoch |-> [e1.closing EXCEPT !.forced = force]]
        ELSE [em |-> e1, epoch |-> NoEpoch]

\* EpochManager::advance: the manager after the call and the epoch it hands
\* back (None when no cut is pending for this source)
advance(e, source, delta, force) ==
    LET e1 == IF CutsEpoch(e, delta, force)
              THEN [curr_ops_count |-> 0,
                    curr_epoch |-> e.curr_epoch + 1,
                    closing |-> [id |-> e.curr_epoch, forced |-> force],
                    participated |-> {}]
              ELSE [e EXCEPT !.curr_ops_count = @ + delta]
    IN  IF e1.closing # NoEpoch /\ source \notin e1.participated
        THEN LET p == e1.participated \cup {source}
             IN  [em |-> IF p = Participants
                         THEN [e1 EXCEPT !.closing = NoEpoch, !.participated = {}]
                         ELSE [e1 EXCEPT !.participated = p],
                  epoch |-> e1.closing]
        ELSE [em |-> e1, epoch |-> NoEpoch]

\* Barrier::new(n) for the epoch cut by this call, if it cut one
NewBarrier(b, e, delta, force) ==
    IF CutsEpoch(e, delta, force)
    THEN [b EXCEPT ![e.curr_epoch] =
                [n |-> Cardinality(Participants), count |-> 0, generation |-> 0]]
    ELSE b

\* a barrier that wants one arrival more than it has parties
IsLeader_OffByOne(bar) == bar.count + 1 > bar.n

\* Barrier::wait as the arriving thread sees it: TRUE when it is the last
\* of the n parties, which releases the barrier
IsLeader(bar) == bar.count + 1 >= bar.n

Arrive(bar) ==
    IF IsLeader(bar) THEN [bar EXCEPT !.count = 0, !.generation = @ + 1]
    ELSE [bar EXCEPT !.count = @ + 1]

\* barrier.wait() that never blocks the caller
barrier_wait_NoBlock(b, id) ==
    [barrier |-> [b EXCEPT ![id] = Arrive(@)], blocked |-> FALSE]

\* barrier.wait() of a source handed the epoch id: the barriers afterwards
\* and whether the caller blocks
barrier_wait(b, id) ==
    [barrier |-> [b EXCEPT ![id] = Arrive(@)], blocked |-> ~IsLeader(b[id])]

(* ------------------------------- inputs -------------------------------- *)
Operations ==
    {[kind |-> "Insert", new |-> r] : r \in Records}
    \cup {[kind |-> "Delete", old |-> r] : r \in Records}
    \cup {[kind |-> "Update", old |-> r, new |-> q] : r \in Records, q \in Records}

\* what the sources of the model emit: an upstream position (txid,
\* seq_in_tx) and the operation read at it
SourceEvents ==
    {[pos |-> <<1, 2>>, op |-> [kind |-> "Insert", new |-> <<1, 7>>]],
     [pos |-> <<2, 1>>, op |-> [kind |-> "Insert", new |-> <<2, 7>>]]}

\* what the operator of the processor emits
ProcOps ==
    {[kind |-> "Insert", new |-> <<1, 7>>],
     [kind |-> "Insert", new |-> <<2, 8>>],
     [kind |-> "Delete", old |-> <<1, 8>>],
     [kind |-> "Delete", old |-> <<2, 8>>],
     [kind |-> "Update", old |-> <<1, 8>>, new |-> <<1, 8>>],
     [kind |-> "Update", old |-> <<1, 8>>, new |-> <<2, 7>>]}

\* what the operator emits in the runs about the table of one port: every
\* Insert, and the Deletes and Updates whose caller-supplied old has value 8
TableOps ==
    {[kind |-> "Insert", new |-> r] : r \in Records}
    \cup {[kind |-> "Delete", old |-> <<k, 8>>] : k \in Keys}
    \cup {[kind |-> "Update", old |-> <<k, 8>>, new |-> q] : k \in Keys, q \in Records}

\* Epoch.details handed to a processor
EpochDetails ==
    {("s1" :> <<1, 2>>), ("s1" :> <<5, 3>>) @@ ("s2" :> <<258, 1>>)}

\* StateWriter.input_ports: None, or Some(Vec) of declared input ports
NoInputPorts == [some |-> FALSE, ports |-> <<>>]

InputPortsChoices ==
    {NoInputPorts}
    \cup {[some |-> TRUE, ports |-> v] :
             v \in {<<>>, <<1>>, <<2>>, <<1, 2>>, <<2, 1>>, <<1, 1>>}}

\* StateWriter.input_schemas: the schemas reported so far, by port
InputSchemasChoices ==
    UNION {[D -> {"SchemaA", "SchemaB"}] : D \in SUBSET {1, 2, 3}}

AllOptions ==
    [retrieve_old_record_for_deletes : BOOLEAN,
     retrieve_old_record_for_updates : BOOLEAN]

(* -------------------------------- Init --------------------------------- *)
NoOptions ==
    [retrieve_old_record_for_deletes |-> FALSE,
     retrieve_old_record_for_updates |-> FALSE]

InitNodes ==
    /\ sw = [n \in Nodes |->
               LET t == [dbs |-> [p \in DbPorts(n) |-> EmptyDb], meta |-> EmptyDb]
               IN  [tx |-> t, committed |-> t]]
    /\ chan = [c \in Chans |-> <<>>]
    /\ rcvd = [c \in Chans |-> 0]
    /\ alive = [c \in Chans |-> TRUE]
    /\ curr_pos = [s \in Sources |-> <<0, 0>>]
    /\ em = [curr_ops_count |-> 0, curr_epoch |-> 1, closing |-> NoEpoch,
             participated |-> {}]
    /\ barrier = [i \in 1..MaxEpoch |-> [n |-> 0, count |-> 0, generation |-> 0]]
    /\ pc = [n \in Nodes |-> "run"]
    /\ local = [s \in Sources |-> NoEpoch]
    /\ result = [n \in Nodes |-> NoResult]
    /\ persisted = [n \in Nodes |-> {}]
    /\ arrived = [i \in 1..MaxEpoch |-> {}]
    /\ sends = [n \in Nodes |-> 0]

Init ==
    /\ cfg \in [live : {{"s1"}, Sources}, opts : {NoOptions},
               input_ports : {NoInputPorts}, input_schemas : {EmptyDb}]
    /\ InitNodes

(* ----------------------- SourceChannelManager -------------------------- *)
\* what a call of source s reads and writes: its manager (w, chan), its
\* position, the shared epoch manager and barriers, and the thread itself
SrcState(s) ==
    [w |-> sw[s], chan |-> chan, pos |-> curr_pos[s], em |-> em,
     barrier |-> barrier, pc |-> pc[s], local |-> local[s],
     result |-> result[s], persisted |-> persisted[s], arrived |-> arrived]

\* an Epoch built with the arguments of Epoch::from mixed up: the txid
\* where the epoch id belongs
SourceEpoch_TxidAsId(id, s, pos) == [id |-> pos[1], details |-> (s :> pos)]

\* an Epoch built with seq_in_tx and txid swapped
SourceEpoch_SwappedPos(id, s, pos) ==
    [id |-> id, details |-> (s :> <<pos[2], pos[1]>>)]

\* Epoch::from(epoch.id, source_handle, curr_txid, curr_seq_in_tx)
SourceEpoch(id, s, pos) == [id |-> id, details |-> (s :> pos)]

\* advance_and_trigger_commit_if_needed that counts the source as arrived
\* at the barrier also when store_and_send_commit failed
advance_and_trigger_commit_if_needed_ArriveOnError(st, s, adv, force, io_ok, order) ==
    LET b1 == NewBarrier(st.barrier, st.em, adv, force)
        AfterCommit(a, r) ==
            LET st1 == [r.m EXCEPT !.em = a.em, !.local = a.epoch,
                                   !.persisted = IF r.stored
                                                 THEN @ \cup {a.epoch.id}
                                                 ELSE @]
                w == barrier_wait(b1, a.epoch.id)
            IN  IF ~r.ok
                THEN [st1 EXCEPT !.barrier = w.barrier, !.pc = "failed",
                                 !.result = RetErr(r.err)]
                ELSE [st1 EXCEPT !.barrier = w.barrier,
                                 !.arrived[a.epoch.id] = @ \cup {s},
                                 !.pc = IF w.blocked THEN "wait" ELSE "run",
                                 !.result = IF w.blocked THEN NoResult
                                            ELSE RetOk(a.epoch.forced)]
        AfterAdvance(a) ==
            IF a.epoch = NoEpoch
            THEN [st EXCEPT !.em = a.em, !.barrier = b1, !.local = NoEpoch,
                            !.result = RetOk(FALSE)]
            ELSE LET epoch_details == SourceEpoch(a.epoch.id, s, st.pos)
                 IN  CHOOSE out \in
                         {AfterCommit(a, r) :
                             r \in {store_and_send_commit(st, s, epoch_details,
                                                          io_ok, order)}} : TRUE
    IN  CHOOSE out \in {AfterAdvance(a) : a \in {advance(st.em, s, adv, force)}} : TRUE

\* SourceChannelManager::advance_and_trigger_commit_if_needed, up to its
\* return or to its blocking in barrier.wait(); what follows advance is
\* given its outcome a, and what follows store_and_send_commit its outcome
\* r, as values
advance_and_trigger_commit_if_needed(st, s, adv, force, io_ok, order) ==
    LET b1 == NewBarrier(st.barrier, st.em, adv, force)
        AfterCommit(a, r) ==
            LET st1 == [r.m EXCEPT !.em = a.em, !.local = a.epoch,
                                   !.persisted = IF r.stored
                                                 THEN @ \cup {a.epoch.id}
                                                 ELSE @]
                w == barrier_wait(b1, a.epoch.id)
            IN  IF ~r.ok
                THEN [st1 EXCEPT !.barrier = b1, !.pc = "failed",
                                 !.result = RetErr(r.err)]
                ELSE [st1 EXCEPT !.barrier = w.barrier,
                                 !.arrived[a.epoch.id] = @ \cup {s},
                                 !.pc = IF w.blocked THEN "wait" ELSE "run",
                                 !.result = IF w.blocked THEN NoResult
                                            ELSE RetOk(a.epoch.forced)]
        AfterAdvance(a) ==
            IF a.epoch = NoEpoch
            THEN [st EXCEPT !.em = a.em, !.barrier = b1, !.local = NoEpoch,
                            !.result = RetOk(FALSE)]
            ELSE LET epoch_details == SourceEpoch(a.epoch.id, s, st.pos)
                 IN  CHOOSE out \in
                         {AfterCommit(a, r) :
                             r \in {store_and_send_commit(st, s, epoch_details,
                                                          io_ok, order)}} : TRUE
    IN  CHOOSE out \in {AfterAdvance(a) : a \in {advance(st.em, s, adv, force)}} : TRUE

\* SourceChannelManager::trigger_commit_if_needed
trigger_commit_if_needed(st, s, force, io_ok, order) ==
    advance_and_trigger_commit_if_needed(st, s, 0, force, io_ok, order)

\* send_and_trigger_commit_if_needed that asks for the commit before it
\* forwards the operation
send_and_trigger_commit_if_needed_CommitFirst(st, s, txid, seq_in_tx, op, port, force, io_ok, order) ==
    LET st1 == [st EXCEPT !.pos = <<txid, seq_in_tx>>]
        st2 == advance_and_trigger_commit_if_needed(st1, s, 1, force, io_ok, order)
        r == send_op(st2, s, op, port)
    IN  IF st2.pc = "failed" THEN st2
        ELSE IF ~r.ok
        THEN [r.m EXCEPT !.pc = "failed", !.result = RetErr(r.err)]
        ELSE r.m

\* SourceChannelManager::send_and_trigger_commit_if_needed; what follows
\* send_op is given its outcome r as a value
send_and_trigger_commit_if_needed(st, s, txid, seq_in_tx, op, port, force, io_ok, order) ==
    LET st1 == [st EXCEPT !.pos = <<txid, seq_in_tx>>]
        AfterSend(r) ==
            IF ~r.ok
            THEN [r.m EXCEPT !.pc = "failed", !.local = NoEpoch,
                             !.result = RetErr(r.err)]
            ELSE advance_and_trigger_commit_if_needed(r.m, s, 1, force, io_ok, order)
    IN  CHOOSE out \in {AfterSend(r) : r \in {send_op(st1, s, op, port)}} : TRUE

\* terminate that first asks the epoch manager for a last, forced epoch
terminate_ForcedEpoch(st, s, order) ==
    LET r == send_term_and_wait(st, s, order)
    IN  [r.m EXCEPT !.em = advance(st.em, s, 0, TRUE).em,
                    !.pc = "term",
                    !.result = IF r.ok THEN RetOk(FALSE) ELSE RetErr(r.err)]

\* SourceChannelManager::terminate
terminate(st, s, order) ==
    LET r == send_term_and_wait(st, s, order)
    IN  [r.m EXCEPT !.pc = "term",
                    !.result = IF r.ok THEN RetOk(FALSE) ELSE RetErr(r.err)]

(* --------------------------- source actions ---------------------------- *)
\* source s goes from its state to st
Apply(s, st) ==
    /\ sw' = [sw EXCEPT ![s] = st.w]
    /\ chan' = st.chan
    /\ curr_pos' = [curr_pos EXCEPT ![s] = st.pos]
    /\ em' = st.em
    /\ barrier' = st.barrier
    /\ pc' = [pc EXCEPT ![s] = st.pc]
    /\ local' = [local EXCEPT ![s] = st.local]
    /\ result' = [result EXCEPT ![s] = st.result]
    /\ persisted' = [persisted EXCEPT ![s] = st.persisted]
    /\ arrived' = st.arrived

RECURSIVE Sum(_, _)
Sum(f, S) ==
    IF S = {} THEN 0
    ELSE LET x == CHOOSE y \in S : TRUE IN f[x] + Sum(f, S \ {x})

\* the model stops sending data after MaxSends operations
SendsLeft == Sum(sends, Nodes) < MaxSends

\* a thread blocked in barrier.wait() that still holds the write guard
HoldsLock_WhileWaiting(p) == p = "wait"

\* whether a source thread resting at position p holds the write guard of
\* the epoch manager: the guard is a temporary of the `let epoch = ...`
\* statement and is dropped at its end, before barrier.wait() is called
HoldsLock(p) == p \notin {"run", "wait", "failed", "term"}

\* RwLock::write on the epoch manager can be taken
LockFree == \A t \in Sources : ~HoldsLock(pc[t])

\* the model stops cutting epochs at MaxEpoch
MayCall(adv, force) == CutsEpoch(em, adv, force) => em.curr_epoch <= MaxEpoch

\* the source thread s calls trigger_commit_if_needed
TriggerCommit(s, force, io_ok, order) ==
    /\ pc[s] = "run"
    /\ LockFree
    /\ MayCall(0, force)
    /\ \E st \in {trigger_commit_if_needed(SrcState(s), s, force, io_ok, order)} :
          Apply(s, st)
    /\ UNCHANGED <<cfg, rcvd, alive, sends>>

\* the source thread s calls send_and_trigger_commit_if_needed
SendAndTrigger(s, txid, seq_in_tx, op, port, force, io_ok, order) ==
    /\ pc[s] = "run"
    /\ LockFree
    /\ SendsLeft
    /\ MayCall(1, force)
    /\ \E st \in {send_and_trigger_commit_if_needed(
                       SrcState(s), s, txid, seq_in_tx, op, port, force, io_ok, order)} :
          Apply(s, st)
    /\ sends' = [sends EXCEPT ![s] = @ + 1]
    /\ UNCHANGED <<cfg, rcvd, alive>>

\* a source blocked in barrier.wait() wakes once the barrier has released
BarrierReturn(s) ==
    /\ pc[s] = "wait"
    /\ barrier[local[s].id].generation > 0
    /\ pc' = [pc EXCEPT ![s] = "run"]
    /\ result' = [result EXCEPT ![s] = RetOk(local[s].forced)]
    /\ UNCHANGED <<cfg, sw, chan, rcvd, alive, curr_pos, em, barrier, local,
                   persisted, arrived, sends>>

\* the source thread s calls terminate
Terminate(s, order) ==
    /\ pc[s] = "run"
    /\ \E st \in {terminate(SrcState(s), s, order)} : Apply(s, st)
    /\ UNCHANGED <<cfg, rcvd, alive, sends>>

(* ---------------------- ProcessorChannelManager ------------------------ *)
\* what a call of processor p reads and writes
ProcState(p) ==
    [w |-> sw[p], chan |-> chan, pc |-> pc[p], result |-> result[p],
     persisted |-> persisted[p]]

\* how a call of the processor's manager ends: an error ends the node's loop
Outcome(r) ==
    [r.m EXCEPT !.pc = IF r.ok THEN @ ELSE "failed",
                !.result = IF r.ok THEN RetOk(FALSE) ELSE RetErr(r.err)]

\* ProcessorChannelForwarder::send
send(st, p, op, port) == Outcome(send_op(st, p, op, port))

\* ProcessorChannelManager::store_and_send_commit
proc_store_and_send_commit(st, p, epoch_details, io_ok, order) ==
    LET r == store_and_send_commit(st, p, epoch_details, io_ok, order)
    IN  [Outcome(r) EXCEPT !.persisted = IF r.stored
                                         THEN @ \cup {epoch_details.id}
                                         ELSE @]

\* ProcessorChannelManager::send_term_and_wait
proc_send_term_and_wait(st, p, order) ==
    [Outcome(send_term_and_wait(st, p, order)) EXCEPT !.pc = "term"]

\* processor p goes from its state to st
ApplyProc(p, st) ==
    /\ sw' = [sw EXCEPT ![p] = st.w]
    /\ chan' = st.chan
    /\ pc' = [pc EXCEPT ![p] = st.pc]
    /\ result' = [result EXCEPT ![p] = st.result]
    /\ persisted' = [persisted EXCEPT ![p] = st.persisted]
    /\ UNCHANGED <<cfg, rcvd, alive, curr_pos, em, barrier, local, arrived>>

\* the processor thread forwards an operation its operator emitted
ProcSend(p, op, port) ==
    /\ pc[p] = "run"
    /\ SendsLeft
    /\ \E st \in {send(ProcState(p), p, op, port)} : ApplyProc(p, st)
    /\ sends' = [sends EXCEPT ![p] = @ + 1]

\* the processor thread relays the Commit of the next epoch
ProcCommit(p, details, io_ok, order) ==
    /\ pc[p] = "run"
    /\ SendsLeft
    /\ Cardinality(persisted[p]) < MaxEpoch
    /\ \E st \in {proc_store_and_send_commit(
                       ProcState(p), p,
                       [id |-> Cardinality(persisted[p]) + 1, details |-> details],
                       io_ok, order)} :
          ApplyProc(p, st)
    /\ sends' = [sends EXCEPT ![p] = @ + 1]

\* the processor thread relays Terminate
ProcTerm(p, order) ==
    /\ pc[p] = "run"
    /\ \E st \in {proc_send_term_and_wait(ProcState(p), p, order)} :
          ApplyProc(p, st)
    /\ UNCHANGED sends

\* the processor thread forwards an operation on its bound port 1, in the
\* runs about the table of that port
TableSend(p, op) ==
    /\ pc[p] = "run"
    /\ sends[p] < MaxOps
    /\ \E st \in {send(ProcState(p), p, op, 1)} : ApplyProc(p, st)
    /\ sends' = [sends EXCEPT ![p] = @ + 1]

(* ------------------------------ schemas ------------------------------- *)
\* the thread of node n asks its state writer for the input schemas
GetAllInputSchemas(n) ==
    /\ pc[n] = "run"
    /\ result' = [result EXCEPT ![n] =
                      get_all_input_schemas(cfg.input_ports, cfg.input_schemas)]
    /\ UNCHANGED <<cfg, sw, chan, rcvd, alive, curr_pos, em, barrier, pc, local,
                   persisted, arrived, sends>>

(* -------------------------- consumer actions --------------------------- *)
\* Receiver::recv by the consumer of channel c
Recv(c) ==
    /\ alive[c]
    /\ rcvd[c] < Len(chan[c])
    /\ rcvd' = [rcvd EXCEPT ![c] = @ + 1]
    /\ UNCHANGED <<cfg, sw, chan, alive, curr_pos, em, barrier, pc, local,
                   result, persisted, arrived, sends>>

\* the consumer of channel c drops its Receiver
Disconnect(c) ==
    /\ alive[c]
    /\ alive' = [alive EXCEPT ![c] = FALSE]
    /\ UNCHANGED <<cfg, sw, chan, rcvd, curr_pos, em, barrier, pc, local,
                   result, persisted, arrived, sends>>

(* ---------------------------- specification ---------------------------- *)
Next ==
    \/ \E s \in cfg.live : \E ev \in SourceEvents, port \in {1, 2},
          force \in BOOLEAN, io_ok \in BOOLEAN, order \in PortOrders(s) :
          SendAndTrigger(s, ev.pos[1], ev.pos[2], ev.op, port, force, io_ok, order)
    \/ \E s \in cfg.live : \E force \in BOOLEAN, io_ok \in BOOLEAN,
          order \in PortOrders(s) :
          TriggerCommit(s, force, io_ok, order)
    \/ \E s \in cfg.live : BarrierReturn(s)
    \/ \E s \in cfg.live : \E order \in PortOrders(s) : Terminate(s, order)

\* the sources of a DAG, one or two of them live, running concurrently
Spec == Init /\ [][Next]_vars

\* the calls of a source that reach advance and do not fail
CallLive(s) ==
    /\ s \in cfg.live
    /\ \/ \E ev \in SourceEvents, force \in BOOLEAN, order \in PortOrders(s) :
             SendAndTrigger(s, ev.pos[1], ev.pos[2], ev.op, 1, force, TRUE, order)
       \/ \E force \in BOOLEAN, order \in PortOrders(s) :
             TriggerCommit(s, force, TRUE, order)

NextLive ==
    \/ \E s \in Sources : CallLive(s)
    \/ \E s \in cfg.live : BarrierReturn(s)

InitSolo ==
    /\ cfg \in [live : {{"s1"}}, opts : {NoOptions},
               input_ports : {NoInputPorts}, input_schemas : {EmptyDb}]
    /\ InitNodes

NextSolo ==
    \/ \E ev \in SourceEvents, port \in {1, 2}, force \in BOOLEAN,
          io_ok \in BOOLEAN, order \in PortOrders("s1") :
          SendAndTrigger("s1", ev.pos[1], ev.pos[2], ev.op, port, force, io_ok, order)
    \/ \E force \in BOOLEAN, io_ok \in BOOLEAN, order \in PortOrders("s1") :
          TriggerCommit("s1", force, io_ok, order)
    \/ \E order \in PortOrders("s1") : Terminate("s1", order)
    \/ \E c \in ChansOf("s1") : Recv(c)
    \/ \E c \in ChansOf("s1") : Disconnect(c)

\* one source alone with the consumer of its channel
SpecSolo == InitSolo /\ [][NextSolo]_vars

InitNode ==
    /\ cfg \in [live : {Sources}, opts : AllOptions,
               input_ports : {NoInputPorts}, input_schemas : {EmptyDb}]
    /\ InitNodes

NextNode ==
    \/ \E p \in Processors, op \in ProcOps, port \in Ports : ProcSend(p, op, port)
    \/ \E p \in Processors : \E details \in EpochDetails, io_ok \in BOOLEAN,
          order \in PortOrders(p) : ProcCommit(p, details, io_ok, order)
    \/ \E p \in Processors : \E order \in PortOrders(p) : ProcTerm(p, order)
    \/ \E p \in Processors : \E c \in ChansOf(p) : Disconnect(c)

\* one processor node, its state writer and the consumers of its ports
SpecNode == InitNode /\ [][NextNode]_vars

NextTable == \E p \in Processors, op \in TableOps : TableSend(p, op)

\* one processor node forwarding on its bound port, under every setting of
\* the StateOptions
SpecTable == InitNode /\ [][NextTable]_vars

NextPorts == \E p \in Processors, op \in ProcOps, port \in Ports : ProcSend(p, op, port)

\* one processor node forwarding on each of its ports, those without a
\* sender included, to consumers that stay connected
SpecPorts == InitNode /\ [][NextPorts]_vars

InitCommit ==
    /\ cfg \in [live : {Sources}, opts : {NoOptions},
               input_ports : {NoInputPorts}, input_schemas : {EmptyDb}]
    /\ InitNodes

NextCommit ==
    \/ \E p \in Processors, op \in {o \in ProcOps : o.kind = "Insert"} :
          ProcSend(p, op, 1)
    \/ \E p \in Processors : \E details \in EpochDetails, io_ok \in BOOLEAN,
          order \in PortOrders(p) : ProcCommit(p, details, io_ok, order)
    \/ \E p \in Processors : \E c \in ChansOf(p) : Disconnect(c)

\* one processor node inserting into its table and relaying Commits to
\* consumers that may disconnect
SpecCommit == InitCommit /\ [][NextCommit]_vars

InitSchemas ==
    /\ cfg \in [live : {Sources}, opts : {NoOptions},
               input_ports : InputPortsChoices,
               input_schemas : InputSchemasChoices]
    /\ InitNodes

NextSchemas == \E n \in Nodes : GetAllInputSchemas(n)

\* the nodes of a DAG built with every choice of declared input ports and
\* reported schemas, asking for their input schemas
SpecSchemas == InitSchemas /\ [][NextSchemas]_vars

\* the sources when no call fails and every source keeps calling: each
\* source thread is scheduled again and again
SpecLive ==
    /\ Init
    /\ [][NextLive]_vars
    /\ \A s \in Sources : WF_vars(CallLive(s)) /\ WF_vars(BarrierReturn(s))

(* ------------------------------- claims -------------------------------- *)
\* the positions of channel c that hold a Commit
CommitAt(c) == {i \in 1..Len(chan[c]) : chan[c][i].type = "Commit"}

\* the epoch ids of the Commits enqueued on channel c
CommitIds(c) == {chan[c][i].epoch_details.id : i \in CommitAt(c)}

\* source s has come back from a call in which it was handed epoch e
Returned(s, e) == local[s].id = e /\ pc[s] \in {"run", "term"}

\* C1 as stated: a Commit of epoch e that a consumer can dequeue from any
\* source implies that every live source has committed its position for e.
C1_CommitImpliesAllPersisted ==
    \A s \in cfg.live : \A c \in ChansOf(s) : \A i \in CommitAt(c) :
        \A t \in cfg.live : chan[c][i].epoch_details.id \in persisted[t]

\* C1 amended: a Commit of epoch e on a channel of source s implies that s
\* itself has committed its position for e, and anything s enqueued after
\* that Commit implies that every live source has committed its position
\* for e.
C1_CommitImpliesOwnPersisted ==
    \A s \in cfg.live : \A c \in ChansOf(s) : \A i \in CommitAt(c) :
        LET e == chan[c][i].epoch_details.id
        IN  /\ e \in persisted[s]
            /\ i < Len(chan[c]) => \A t \in cfg.live : e \in persisted[t]

\* two live sources, and one has sent on after its Commit
C1_Witness ==
    /\ Cardinality(cfg.live) = 2
    /\ \E c \in ChansOf("s1") : \E i \in CommitAt(c) : i < Len(chan[c])

\* C2: a source that has come back from a call that cut epoch e implies
\* that every live source has committed its position for e, enqueued its
\* Commit of e on each of its channels and called wait() on the barrier of
\* e; and a barrier has released exactly when all live sources have arrived.
C2_BarrierSafety ==
    /\ \A s \in cfg.live : \A e \in 1..MaxEpoch :
          Returned(s, e) =>
              \A t \in cfg.live :
                  /\ e \in persisted[t]
                  /\ \A c \in ChansOf(t) : e \in CommitIds(c)
                  /\ t \in arrived[e]
    /\ \A e \in 1..MaxEpoch :
          barrier[e].generation > 0 <=> (cfg.live # {} /\ arrived[e] = cfg.live)

\* two live sources, both back from the barrier of the same epoch
C2_Witness ==
    /\ Cardinality(cfg.live) = 2
    /\ \E e \in 1..MaxEpoch : \A s \in cfg.live : Returned(s, e)

\* no thread but that of source s moves in this step (every call of s is
\* such a step)
StepOf(s) ==
    \A t \in Sources \ {s} :
        pc'[t] = pc[t] /\ result'[t] = result[t] /\ local'[t] = local[t]

\* the call of source s in this step got as far as advance
ReachedAdvance(s) == ~(pc'[s] = "failed" /\ local'[s] = NoEpoch)

\* what a call of advance(s, delta, force) must hand back
HandedBack(s, delta, force) ==
    IF em.closing # NoEpoch
    THEN local'[s] = em.closing
    ELSE IF em.curr_ops_count + delta >= Threshold \/ force
    THEN local'[s] = [id |-> em.curr_epoch, forced |-> force]
    ELSE /\ local'[s] = NoEpoch
         /\ \A c \in ChansOf(s) : CommitIds(c)' = CommitIds(c)
         /\ persisted'[s] = persisted[s]
         /\ arrived' = arrived
         /\ pc'[s] = "run"

\* C3: every call of advance made while a cut epoch is pending is handed
\* that epoch, with the id and the forced flag it was cut with, so all
\* sources holding an epoch id hold the same epoch and wait on the barrier
\* built for it; a call made while no cut is pending, and that cuts none,
\* is handed nothing and the caller neither sends a Commit nor waits.
C3_RoundVisibility ==
    [][\A s \in cfg.live : \A force \in BOOLEAN, io_ok \in BOOLEAN :
        \A order \in PortOrders(s) :
            /\ (StepOf(s) /\ sends' = sends /\ curr_pos' = curr_pos
                    /\ TriggerCommit(s, force, io_ok, order))
               => HandedBack(s, 0, force)
            /\ \A ev \in SourceEvents, port \in {1, 2} :
                   (/\ StepOf(s) /\ sends'[s] = sends[s] + 1
                    /\ curr_pos'[s] = ev.pos
                    /\ SendAndTrigger(s, ev.pos[1], ev.pos[2], ev.op, port, force,
                                      io_ok, order)
                    /\ ReachedAdvance(s))
                   => HandedBack(s, 1, force)]_vars

\* two live sources hold the same cut epoch, the second one handed it by a
\* call that did not ask for a forced cut although the cut was forced
C3_Witness ==
    /\ Cardinality(cfg.live) = 2
    /\ local["s1"].id = 1 /\ local["s1"] = local["s2"] /\ local["s1"].forced
    /\ \A s \in cfg.live : pc[s] = "run"
    /\ em.curr_ops_count = 1

\* C4: when no call fails and every live source keeps calling, a source
\* blocked on a barrier is eventually released; with one live source no
\* call ever blocks.
C4_BarrierLiveness ==
    /\ \A s \in Sources : (pc[s] = "wait") ~> (pc[s] = "run")
    /\ [](Cardinality(cfg.live) = 1 => \A s \in Sources : pc[s] # "wait")

\* a source is blocked on the barrier of a cut epoch
C4_Witness ==
    \E s \in cfg.live : pc[s] = "wait" /\ barrier[local[s].id].generation = 0

IsData(msg) == msg.type \in {"Insert", "Update", "Delete"}

\* the messages enqueued on channel c in this step
Enqueued(c) == SubSeq(chan'[c], Len(chan[c]) + 1, Len(chan'[c]))

\* C5: on every channel, a step only appends to what was enqueued before,
\* the Commit a call enqueues comes after the data operation of the same
\* call (the last one sent before the cut), and the consumer dequeues one
\* message at a time from the front, in the order of enqueueing.
C5_InBandFifo ==
    [][\A c \in Chans :
        /\ Len(chan'[c]) >= Len(chan[c])
        /\ SubSeq(chan'[c], 1, Len(chan[c])) = chan[c]
        /\ \A i, j \in 1..Len(Enqueued(c)) :
              (IsData(Enqueued(c)[i]) /\ Enqueued(c)[j].type = "Commit") => i < j
        /\ rcvd'[c] \in {rcvd[c], rcvd[c] + 1}
        /\ rcvd'[c] <= Len(chan'[c])]_vars

\* the consumer has dequeued an operation, the Commit cut by the call that
\* sent it, and an operation sent after the cut
C5_Witness ==
    \E c \in ChansOf("s1") :
        /\ rcvd[c] >= 3
        /\ IsData(chan[c][1]) /\ chan[c][2].type = "Commit" /\ IsData(chan[c][3])

\* the Commits source s enqueued in this step carry the epoch it was handed,
\* its own handle and the position pos
NewCommitsCarry(s, pos) ==
    \A c \in ChansOf(s) : \A i \in 1..Len(Enqueued(c)) :
        Enqueued(c)[i].type = "Commit" =>
            Enqueued(c)[i].epoch_details =
                [id |-> local'[s].id, details |-> (s :> pos)]

\* the end-to-end scenario: Insert(key=1), Insert(key=2), forced commit
ScenarioDone ==
    /\ cfg.live = {"s1"}
    /\ Len(chan["c1"]) = 3
    /\ chan["c1"][1] = [type |-> "Insert", new |-> <<1, 7>>]
    /\ chan["c1"][2] = [type |-> "Insert", new |-> <<2, 7>>]
    /\ chan["c1"][3].type = "Commit"

ScenarioResult ==
    /\ chan["c1"][3].epoch_details = [id |-> 1, details |-> ("s1" :> <<2, 1>>)]
    /\ sw["s1"].tx.dbs[1] =
           (<<1>> :> serialize(<<1, 7>>)) @@ (<<2>> :> serialize(<<2, 7>>))
    /\ sw["s1"].committed = sw["s1"].tx

\* C8: a source starts at position (0, 0); a call of
\* send_and_trigger_commit_if_needed makes the (txid, seq) it is passed the
\* position and no other step changes it; every Commit a source enqueues
\* carries the epoch id it was handed, its own handle and that position;
\* and after Insert(key=1), Insert(key=2) and a forced cut by a single
\* source both records are stored and the Commit of epoch 1 with the
\* position of the second insert follows both inserts.
C8_CommitCarriesPosition ==
    /\ curr_pos = [s \in Sources |-> <<0, 0>>]
    /\ [][/\ \A s \in cfg.live :
               \/ \E ev \in SourceEvents, port \in {1, 2}, force \in BOOLEAN,
                     io_ok \in BOOLEAN, order \in PortOrders(s) :
                     /\ SendAndTrigger(s, ev.pos[1], ev.pos[2], ev.op, port, force,
                                       io_ok, order)
                     /\ curr_pos'[s] = ev.pos
                     /\ NewCommitsCarry(s, ev.pos)
               \/ /\ curr_pos'[s] = curr_pos[s]
                  /\ NewCommitsCarry(s, curr_pos[s])
           /\ ScenarioDone' => ScenarioResult']_vars

\* the scenario has run, the cut forced
C8_Witness == ScenarioDone /\ result["s1"] = RetOk(TRUE)

\* C9: the Commits on a channel carry strictly increasing epoch ids, and
\* every epoch id handed out is below the id the next round will get.
C9_EpochIdsIncrease ==
    /\ \A c \in Chans : \A i, j \in CommitAt(c) :
          i < j => chan[c][i].epoch_details.id < chan[c][j].epoch_details.id
    /\ \A c \in Chans : \A e \in CommitIds(c) : e < em.curr_epoch
    /\ \A s \in Sources : local[s].id < em.curr_epoch
    /\ em.closing.id < em.curr_epoch

\* a channel holds the Commits of two rounds
C9_Witness == \E c \in Chans : Cardinality(CommitIds(c)) >= 2

\* the table that results from applying the data operations of msgs, in
\* order, to db
RECURSIVE Replay(_, _)
Replay(db, msgs) ==
    IF Len(msgs) = 0 THEN db
    ELSE LET msg == Head(msgs)
             db1 == CASE msg.type \in {"Insert", "Update"} ->
                            Put(db, get_key(msg.new, primary_index),
                                serialize(msg.new))
                       [] msg.type = "Delete" ->
                            Del(db, get_key(msg.old, primary_index))
                       [] OTHER -> db
         IN  Replay(db1, Tail(msgs))

\* the table of port of processor p holds exactly what was forwarded to
\* each consumer of the port
TableIsForwarded(p, port) ==
    IF port \in DOMAIN senders(p)
    THEN \A c \in Range(senders(p)[port]) :
             sw[p].tx.dbs[port] = Replay(EmptyDb, chan[c])
    ELSE sw[p].tx.dbs[port] = EmptyDb

Committed(p) == persisted'[p] # persisted[p]

\* C7: a step in which store_commit_info commits makes durable exactly the
\* open transaction: the table writes pending since the last commit and
\* the position entries of the epoch, and the transaction that follows
\* starts from that state; every other step, table writes included, leaves
\* the durable state as the last commit left it.
C7_CommitBoundary ==
    [][\A p \in Processors :
        IF Committed(p)
        THEN /\ sw'[p].committed.dbs = sw[p].tx.dbs
             /\ \E details \in EpochDetails :
                   sw'[p].committed.meta =
                       PutDetails(sw[p].tx.meta, details, DOMAIN details)
             /\ sw'[p].committed.meta # EmptyDb
             /\ sw'[p].tx = sw'[p].committed
        ELSE sw'[p].committed = sw[p].committed]_vars

\* a commit has made the positions of an epoch durable, and a record
\* written after it is in the open transaction only
C7_Witness ==
    \E p \in Processors :
        /\ persisted[p] # {}
        /\ sw[p].committed.meta # EmptyDb
        /\ sw[p].tx.dbs[1] # EmptyDb
        /\ sw[p].committed.dbs[1] = EmptyDb

\* C10: on a port with no bound Storage Handle store_op returns the
\* operation it was given, whatever the tables hold, and leaves the open
\* transaction as it was.
C10_StatelessPassThrough ==
    \A n \in Nodes : \A port \in Ports \ DbPorts(n) : \A op \in Operations :
        store_op(sw[n].tx, n, op, port) = [ok |-> TRUE, op |-> op, t |-> sw[n].tx]

\* a node with a record in a bound table has forwarded an operation on its
\* unbound port
C10_Witness ==
    /\ sw["p1"].tx.dbs[1] # EmptyDb
    /\ Len(chan["c5"]) > 0 /\ IsData(chan["c5"][1])

\* the record last written under key by the data operations of msgs: an
\* Insert or Update writes its new under the key of new, a Delete removes
\* the key of its old
RECURSIVE LastWritten(_, _)
LastWritten(msgs, key) ==
    IF Len(msgs) = 0 THEN [found |-> FALSE, rec |-> <<>>]
    ELSE LET msg == msgs[Len(msgs)]
             before == SubSeq(msgs, 1, Len(msgs) - 1)
         IN  CASE msg.type \in {"Insert", "Update"}
                      /\ get_key(msg.new, primary_index) = key ->
                      [found |-> TRUE, rec |-> msg.new]
               [] msg.type = "Delete"
                      /\ get_key(msg.old, primary_index) = key ->
                      [found |-> FALSE, rec |-> <<>>]
               [] OTHER -> LastWritten(before, key)

\* C11: on a table configured to retrieve the old record for deletes, after
\* any sequence of forwarded operations, a Delete whose key holds a record
\* succeeds, and the old it returns and forwards to every consumer is the
\* record last written under that key, whatever non-key values the caller
\* supplied.
C11_DeleteReturnsStored ==
    cfg.opts.retrieve_old_record_for_deletes =>
        \A p \in Processors : \A op \in Operations :
            LET lw == LastWritten(chan["c3"], get_key(op.old, primary_index))
                st == store_op(sw[p].tx, p, op, 1)
                r == send_op(ProcState(p), p, op, 1)
            IN  (op.kind = "Delete" /\ lw.found) =>
                    /\ st.ok /\ st.op = [kind |-> "Delete", old |-> lw.rec]
                    /\ r.ok
                    /\ \A c \in Range(senders(p)[1]) :
                          r.m.chan[c] =
                              Append(chan[c], [type |-> "Delete", old |-> lw.rec])

\* an Insert, an Update that overwrote it, and a Delete forwarded with the
\* record of the Update as its old: a value no Delete of the run supplied
C11_Witness ==
    /\ cfg.opts.retrieve_old_record_for_deletes
    /\ Len(chan["c3"]) = 3
    /\ chan["c3"][1].type = "Insert" /\ chan["c3"][2].type = "Update"
    /\ chan["c3"][3].type = "Delete"
    /\ chan["c3"][3].old = chan["c3"][2].new
    /\ chan["c3"][1].new # chan["c3"][2].new
    /\ chan["c3"][3].old[2] = 7
    /\ chan["c4"] = chan["c3"]

\* the wire-level operation that carries the fields of op as they are
AsGiven(op) ==
    IF op.kind = "Delete" THEN [type |-> "Delete", old |-> op.old]
    ELSE [type |-> "Update", old |-> op.old, new |-> op.new]

\* C12: an Update on a table not configured to retrieve the old record for
\* updates, and a Delete on a table not configured to retrieve it for
\* deletes, succeed whatever the table holds under the key (nothing
\* included), and return and forward exactly the old the caller supplied.
C12_OldKeptAsSupplied ==
    \A p \in Processors : \A op \in Operations :
        (\/ op.kind = "Update" /\ ~cfg.opts.retrieve_old_record_for_updates
         \/ op.kind = "Delete" /\ ~cfg.opts.retrieve_old_record_for_deletes)
        => LET st == store_op(sw[p].tx, p, op, 1)
               r == send_op(ProcState(p), p, op, 1)
           IN  /\ st.ok /\ st.op = op
               /\ r.ok
               /\ \A c \in Range(senders(p)[1]) :
                     r.m.chan[c] = Append(chan[c], AsGiven(op))

\* with both options off: an Update forwarded with an old that differs from
\* the record stored under its key, then a Delete of a key that holds
\* nothing, forwarded as supplied
C12_Witness ==
    /\ ~cfg.opts.retrieve_old_record_for_updates
    /\ ~cfg.opts.retrieve_old_record_for_deletes
    /\ Len(chan["c3"]) = 3
    /\ chan["c3"][1] = [type |-> "Insert", new |-> <<1, 7>>]
    /\ chan["c3"][2] = [type |-> "Update", old |-> <<1, 8>>, new |-> <<1, 7>>]
    /\ chan["c3"][3] = [type |-> "Delete", old |-> <<2, 8>>]
    /\ DOMAIN sw["p1"].tx.dbs[1] = {<<1>>}

\* op is a Delete or Update for which the options ask for the stored record
Retrieves(op) ==
    \/ op.kind = "Delete" /\ cfg.opts.retrieve_old_record_for_deletes
    \/ op.kind = "Update" /\ cfg.opts.retrieve_old_record_for_updates

\* C13: on a table that retrieves the old record, a Delete of key k made
\* right after Insert(k, V) returns and forwards old = V and leaves k absent
\* from the table; a Delete or Update whose key is absent fails with
\* RecordNotFound, leaves the state writer as it was and enqueues nothing
\* on any channel.
C13_RetrieveOldOrNotFound ==
    \A p \in Processors : \A op \in Operations :
        LET key == get_key(op.old, primary_index)
            r == send_op(ProcState(p), p, op, 1)
            n == Len(chan["c3"])
        IN  /\ (/\ op.kind = "Delete" /\ Retrieves(op)
                /\ n > 0 /\ chan["c3"][n].type = "Insert"
                /\ get_key(chan["c3"][n].new, primary_index) = key)
               => /\ r.ok
                  /\ \A c \in Range(senders(p)[1]) :
                        r.m.chan[c] = Append(chan[c], [type |-> "Delete",
                                                       old |-> chan["c3"][n].new])
                  /\ ~Has(r.m.w.tx.dbs[1], key)
            /\ (op.kind # "Insert" /\ Retrieves(op) /\ ~Has(sw[p].tx.dbs[1], key))
               => /\ ~r.ok /\ r.err = "RecordNotFound"
                  /\ r.m.w = sw[p]
                  /\ r.m.chan = chan
                  /\ send(ProcState(p), p, op, 1).result = RetErr("RecordNotFound")

\* Insert(k, V), a Delete of k forwarded with old = V, and a further call on
\* the now missing key that failed with RecordNotFound
C13_Witness ==
    /\ cfg.opts.retrieve_old_record_for_deletes
    /\ Len(chan["c3"]) = 2
    /\ chan["c3"][1].type = "Insert" /\ chan["c3"][2].type = "Delete"
    /\ chan["c3"][2].old = chan["c3"][1].new
    /\ sw["p1"].tx.dbs[1] = EmptyDb
    /\ result["p1"] = RetErr("RecordNotFound")
    /\ pc["p1"] = "failed"

\* node n has called get_all_input_schemas
Asked(n) == result[n].tag \in {"OptSome", "OptNone"}

\* every input port the node declares has a schema in input_schemas
AllReported ==
    \A i \in 1..Len(cfg.input_ports.ports) :
        cfg.input_ports.ports[i] \in DOMAIN cfg.input_schemas

\* C14 as stated: get_all_input_schemas returns the map if and only if every
\* declared input port has a schema in it, and nothing otherwise.
C14_MapIffAllReported ==
    \A n \in Nodes :
        Asked(n) =>
            /\ result[n].tag = "OptSome" <=> AllReported
            /\ result[n].tag = "OptSome" => result[n].val = cfg.input_schemas

\* C14 amended: get_all_input_schemas returns the whole input-schema map if
\* and only if the node was built with a list of input ports and every port
\* of the list has a schema in the map, and nothing otherwise (a node built
\* with no list gets nothing); the call changes no state, so every later
\* call returns the same.
C14_MapIffDeclaredAndReported ==
    /\ [](\A n \in Nodes :
            Asked(n) =>
                /\ result[n].tag = "OptSome"
                      <=> (cfg.input_ports.some /\ AllReported)
                /\ result[n].tag = "OptSome" => result[n].val = cfg.input_schemas)
    /\ [][\A n \in Nodes :
            /\ <<cfg, sw, chan, pc>>' = <<cfg, sw, chan, pc>>
            /\ Asked(n) => result'[n] = result[n]]_vars

\* a node with two declared input ports, both reported, was handed the map,
\* which also holds the schema of a port it did not declare
C14_Witness ==
    /\ cfg.input_ports = [some |-> TRUE, ports |-> <<2, 1>>]
    /\ DOMAIN cfg.input_schemas = {1, 2, 3}
    /\ result["p1"] = OptSome(cfg.input_schemas)

\* the details of the last Commit enqueued on channel c
LastCommitDetails(c) ==
    LET i == CHOOSE j \in CommitAt(c) : \A k \in CommitAt(c) : k <= j
    IN  chan[c][i].epoch_details.details

\* C15: after store_commit_info for an epoch that holds S -> (txid, seq),
\* the durable metadata table holds under <<marker byte>> \o bytes(S) a
\* value of 16 bytes, txid in the first 8 and seq in the last 8, most
\* significant byte first, and decoding them gives back (txid, seq).
C15_CheckpointRoundTrip ==
    \A p \in Processors : \A c \in ChansOf(p) :
        (pc[p] = "run" /\ CommitAt(c) # {}) =>
            \A S \in DOMAIN LastCommitDetails(c) :
                LET key == <<SOURCE_ID_IDENTIFIER>> \o NodeBytes(S)
                    pos == LastCommitDetails(c)[S]
                    meta == sw[p].committed.meta
                IN  /\ Has(meta, key)
                    /\ Len(meta[key]) = 16
                    /\ meta[key][8] = pos[1] % 256
                    /\ meta[key][7] = (pos[1] \div 256) % 256
                    /\ meta[key][16] = pos[2] % 256
                    /\ \A i \in (1..6) \cup (9..14) : meta[key][i] = 0
                    /\ from_be_bytes(SubSeq(meta[key], 1, 8)) = pos[1]
                    /\ from_be_bytes(SubSeq(meta[key], 9, 16)) = pos[2]

\* the checkpoint of an epoch with s1 at (5, 3) and s2 at (258, 1) is
\* durable: 258 is stored as the bytes 1, 2 at the end of the first field
C15_Witness ==
    LET meta == sw["p1"].committed.meta
    IN  /\ pc["p1"] = "run"
        /\ DOMAIN meta = {<<0, 115, 49>>, <<0, 115, 50>>}
        /\ meta[<<0, 115, 49>>] = <<0, 0, 0, 0, 0, 0, 0, 5, 0, 0, 0, 0, 0, 0, 0, 3>>
        /\ meta[<<0, 115, 50>>] = <<0, 0, 0, 0, 0, 0, 1, 2, 0, 0, 0, 0, 0, 0, 0, 1>>

\* the manager of node n as send_op finds it
Manager(n) == [w |-> sw[n], chan |-> chan]

\* C16 as stated: send_op on a port with no registered sender set fails
\* with InvalidPortHandle and sends nothing on any channel.
C16_NoSendersInvalidPort ==
    \A n \in Nodes : \A port \in Ports \ DOMAIN senders(n) :
        \A op \in Operations :
            \A r \in {send_op(Manager(n), n, op, port)} :
                ~r.ok /\ r.err = "InvalidPortHandle" /\ r.m.chan = chan

\* C16 amended: send_op on a port with no registered sender set fails and
\* sends nothing on any channel; the error is InvalidPortHandle unless the
\* state writer failed first, in which case it is the state writer's error.
C16_NoSendersFails ==
    \A n \in Nodes : \A port \in Ports \ DOMAIN senders(n) :
        \A op \in Operations :
            \A r \in {send_op(Manager(n), n, op, port)} :
            \A st \in {store_op(sw[n].tx, n, op, port)} :
                /\ ~r.ok /\ r.m.chan = chan
                /\ r.err = IF stateful[n] /\ ~st.ok THEN st.err
                           ELSE "InvalidPortHandle"

\* a processor whose call on a port without senders failed with
\* InvalidPortHandle after an operation went out on another port
C16_Witness ==
    /\ result["p1"] = RetErr("InvalidPortHandle")
    /\ pc["p1"] = "failed"
    /\ Len(chan["c5"]) = 1 /\ chan["c3"] = <<>> /\ chan["c4"] = <<>>

\* C17: a successful send_op(op, port) appends exactly one wire-level
\* operation to the channel of every consumer bound to the port and nothing
\* to any other channel; every copy has the variant and the fields of the
\* operation the state writer returned (of op itself on a stateless node).
C17_OneCopyPerConsumer ==
    \A n \in Nodes : \A port \in DOMAIN senders(n) : \A op \in Operations :
        \A r \in {send_op(Manager(n), n, op, port)} :
        \A st \in {IF stateful[n] THEN store_op(sw[n].tx, n, op, port)
                   ELSE [ok |-> TRUE, op |-> op]} :
            r.ok =>
                /\ st.ok
                /\ \A c \in Chans :
                      IF c \in Range(senders(n)[port])
                      THEN /\ Len(r.m.chan[c]) = Len(chan[c]) + 1
                           /\ SubSeq(r.m.chan[c], 1, Len(chan[c])) = chan[c]
                           /\ LET msg == r.m.chan[c][Len(chan[c]) + 1]
                              IN  /\ msg.type = st.op.kind
                                  /\ DOMAIN msg \ {"type"} = DOMAIN st.op \ {"kind"}
                                  /\ \A f \in DOMAIN msg \ {"type"} :
                                        msg[f] = st.op[f]
                      ELSE r.m.chan[c] = chan[c]

\* with the old record retrieved for deletes, the two consumers of port 1
\* got the same Insert and the same Delete, the Delete with the stored
\* record as its old, and the consumer of port 2 got nothing
C17_Witness ==
    /\ cfg.opts.retrieve_old_record_for_deletes
    /\ Len(chan["c3"]) = 2
    /\ chan["c3"][1].type = "Insert" /\ chan["c3"][2].type = "Delete"
    /\ chan["c3"][2].old = chan["c3"][1].new
    /\ chan["c4"] = chan["c3"] /\ chan["c5"] = <<>>
    /\ result["p1"] = RetOk(FALSE)

\* C18: send_term_and_wait, on a stateful and on a stateless node alike,
\* leaves the state writer as it was and, when it succeeds (as it does when
\* every receiver is connected), appends exactly one Terminate to the
\* channel of every consumer of every output port of the node, after all
\* that was enqueued on it before, and nothing to any other channel.
C18_TerminateEveryChannel ==
    \A n \in Nodes : \A order \in PortOrders(n) :
        \A r \in {send_term_and_wait(Manager(n), n, order)} :
            /\ r.m.w = sw[n]
            /\ (\A c \in ChansOf(n) : alive[c]) => r.ok
            /\ r.ok => \A c \in Chans :
                          r.m.chan[c] = IF c \in ChansOf(n)
                                        THEN Append(chan[c], TerminateMsg)
                                        ELSE chan[c]

\* the processor has terminated: each of its channels ends with its only
\* Terminate, on one of them after an operation and a Commit, and the
\* table still holds the record
C18_Witness ==
    /\ pc["p1"] = "term" /\ result["p1"] = RetOk(FALSE)
    /\ \A c \in ChansOf("p1") :
          /\ Len(chan[c]) > 0
          /\ \A i \in 1..Len(chan[c]) :
                chan[c][i] = TerminateMsg <=> i = Len(chan[c])
    /\ Len(chan["c3"]) = 3 /\ IsData(chan["c3"][1])
    /\ chan["c3"][2].type = "Commit"
    /\ sw["p1"].tx.dbs[1] # EmptyDb

\* the epochs a node may be asked to commit
EpochsHanded == [id : 1..MaxEpoch, details : EpochDetails]

\* C19: store_and_send_commit of any node, also when a processor relays
\* it, enqueues a Commit only after the checkpoint is committed: a failure
\* to persist enqueues nothing anywhere; a call that succeeds has made the
\* positions durable and appended exactly one Commit to every channel of
\* the node; every Commit enqueued carries the very epoch handed in. A
\* step of a processor leaves the epoch manager and the barriers alone.
C19_PersistThenCommit ==
    /\ [](\A n \in Nodes : \A e \in EpochsHanded : \A io_ok \in BOOLEAN :
            \A order \in PortOrders(n) :
                \A r \in {IF n \in Processors
                          THEN LET o == proc_store_and_send_commit(
                                            ProcState(n), n, e, io_ok, order)
                               IN  [ok |-> o.result.tag = "Ok", m |-> o]
                          ELSE store_and_send_commit(Manager(n), n, e, io_ok, order)} :
                    /\ ~io_ok => /\ ~r.ok
                                 /\ r.m.chan = chan
                                 /\ r.m.w.committed = sw[n].committed
                    /\ io_ok =>
                          /\ r.m.w.committed = r.m.w.tx
                          /\ r.m.w.committed.meta =
                                PutDetails(sw[n].tx.meta, e.details, DOMAIN e.details)
                          /\ r.m.w.committed.dbs = sw[n].tx.dbs
                    /\ \A c \in Chans :
                          r.m.chan[c] # chan[c] =>
                              /\ io_ok /\ c \in ChansOf(n)
                              /\ r.m.chan[c] =
                                    Append(chan[c], [type |-> "Commit",
                                                     epoch_details |-> e])
                    /\ r.ok => \A c \in ChansOf(n) : r.m.chan[c] # chan[c])
    /\ [][<<em, barrier, local, arrived, curr_pos>>'
             = <<em, barrier, local, arrived, curr_pos>>]_vars

\* the processor relayed the Commit of an epoch that names two sources: the
\* positions are durable and each of its three channels got the same Commit
C19_Witness ==
    /\ result["p1"] = RetOk(FALSE)
    /\ sw["p1"].committed.meta # EmptyDb
    /\ \A c \in ChansOf("p1") :
          /\ Len(chan[c]) = 1
          /\ chan[c][1] = [type |-> "Commit",
                           epoch_details |->
                               [id |-> 1,
                                details |-> ("s1" :> <<5, 3>>) @@ ("s2" :> <<258, 1>>)]]
    /\ em.curr_epoch = 1 /\ em.closing = NoEpoch

\* what a heartbeat of source s with force set would do now
ForcedHeartbeat(s, order) == trigger_commit_if_needed(SrcState(s), s, TRUE, TRUE, order)

\* what a send of source s without force would do now
PlainSend(s, ev, order) ==
    send_and_trigger_commit_if_needed(SrcState(s), s, ev.pos[1], ev.pos[2], ev.op,
                                      1, FALSE, TRUE, order)

\* C20: when no cut is pending, a call with force set cuts an epoch
\* whatever the counter holds, commits and broadcasts for it, and then
\* blocks on its barrier unless it is the only live source; a call without
\* force cuts one only at the threshold, and that cut is not forced. A
\* call that has returned reports true exactly when it was handed an epoch
\* whose cut was forced, false when it was handed none, and it has
\* returned from an epoch only once every live source arrived at the
\* barrier.
C20_ForcedCut ==
    /\ \A s \in cfg.live : \A order \in PortOrders(s) :
          (pc[s] = "run" /\ em.closing = NoEpoch /\ em.curr_epoch <= MaxEpoch) =>
              /\ LET st == ForcedHeartbeat(s, order)
                 IN  /\ st.local = [id |-> em.curr_epoch, forced |-> TRUE]
                     /\ em.curr_epoch \in st.persisted
                     /\ s \in st.arrived[em.curr_epoch]
                     /\ IF cfg.live = {s}
                        THEN st.pc = "run" /\ st.result.tag = "Ok" /\ st.result.val
                        ELSE st.pc = "wait" /\ st.result.tag = "None"
              /\ \A ev \in SourceEvents :
                    LET st == PlainSend(s, ev, order)
                    IN  IF em.curr_ops_count + 1 >= Threshold
                        THEN st.local = [id |-> em.curr_epoch, forced |-> FALSE]
                        ELSE /\ st.local = NoEpoch /\ st.pc = "run"
                             /\ st.result.tag = "Ok" /\ ~st.result.val
    /\ \A s \in cfg.live :
          (pc[s] = "run" /\ result[s].tag = "Ok") =>
              /\ result[s].val <=> (local[s] # NoEpoch /\ local[s].forced)
              /\ local[s] # NoEpoch => arrived[local[s].id] = cfg.live
    /\ \A s \in cfg.live :
          pc[s] = "wait" => /\ local[s] # NoEpoch /\ s \in arrived[local[s].id]
                            /\ result[s].tag = "None"

\* with two live sources and nothing sent, s1 forced a cut and is blocked
\* on the barrier of epoch 1, which s2 has not reached
C20_Witness ==
    /\ cfg.live = Sources
    /\ Sum(sends, Nodes) = 0 /\ em.curr_ops_count = 0
    /\ local["s1"] = [id |-> 1, forced |-> TRUE]
    /\ pc["s1"] = "wait" /\ arrived[1] = {"s1"}
    /\ pc["s2"] = "run" /\ local["s2"] = NoEpoch


\* C21: terminate of a source that is running leaves the epoch manager, the
\* barriers and the arrivals at them as they were, persists no position
\* (the state writer, the source's position and the epoch it holds are
\* untouched), enqueues no Commit and ends without waiting on a barrier;
\* it only appends one Terminate to each channel of the source, stopping at
\* a consumer that is gone.
C21_TerminateLeavesEpochManager ==
    \A s \in cfg.live : \A order \in PortOrders(s) :
        pc[s] = "run" =>
            \A st \in {terminate(SrcState(s), s, order)} :
                /\ st.em = em /\ st.barrier = barrier /\ st.arrived = arrived
                /\ st.persisted = persisted[s] /\ st.w = sw[s]
                /\ st.pos = curr_pos[s] /\ st.local = local[s]
                /\ st.pc = "term" /\ st.result # NoResult
                /\ \A c \in Chans :
                      st.chan[c] \in
                          IF c \in ChansOf(s)
                          THEN {chan[c], Append(chan[c], TerminateMsg)}
                          ELSE {chan[c]}
                /\ st.result = RetOk(FALSE) =>
                      \A c \in ChansOf(s) : st.chan[c] # chan[c]

\* s1 has terminated while s2 is blocked on the barrier of an epoch that s1
\* never joined: the round is still pending and its barrier has one arrival
C21_Witness ==
    /\ cfg.live = Sources
    /\ pc["s1"] = "term" /\ result["s1"] = RetOk(FALSE)
    /\ chan["c1"][Len(chan["c1"])] = TerminateMsg
    /\ pc["s2"] = "wait" /\ em.closing = local["s2"]
    /\ em.participated = {"s2"} /\ arrived[local["s2"].id] = {"s2"}
    /\ barrier[local["s2"].id].count = 1
    /\ persisted["s1"] = {}


\* the position stored under the key of source S in a metadata table
StoredPos(meta, S) ==
    <<from_be_bytes(SubSeq(meta[MetaKey(S)], 1, 8)),
      from_be_bytes(SubSeq(meta[MetaKey(S)], 9, 16))>>

\* the Commits on channel c that name source S
CommitsNaming(c, S) ==
    {i \in CommitAt(c) : S \in DOMAIN chan[c][i].epoch_details.details}

\* C22: the metadata table of a node holds at most one entry per source; on
\* a processor none of whose calls failed, a source has an entry exactly
\* when some epoch relayed so far named it, and the entry is the position
\* the latest such epoch gave it. store_commit_info for an epoch puts the
\* position of every source the epoch names under that source's key and
\* leaves the entries of all other sources and every data table as they
\* were.
C22_OneEntryPerSource ==
    /\ \A n \in Nodes :
          /\ DOMAIN sw[n].tx.meta \subseteq {MetaKey(S) : S \in Sources}
          /\ Cardinality(DOMAIN sw[n].tx.meta) <= Cardinality(Sources)
    /\ \A S, T \in Sources : MetaKey(S) = MetaKey(T) => S = T
    /\ \A p \in Processors : \A c \in ChansOf(p) : \A S \in Sources :
          pc[p] = "run" =>
              IF CommitsNaming(c, S) = {} THEN ~Has(sw[p].tx.meta, MetaKey(S))
              ELSE LET last == CHOOSE i \in CommitsNaming(c, S) :
                                   \A j \in CommitsNaming(c, S) : j <= i
                   IN  /\ Has(sw[p].tx.meta, MetaKey(S))
                       /\ StoredPos(sw[p].tx.meta, S) =
                             chan[c][last].epoch_details.details[S]
    /\ \A n \in Nodes : \A e \in EpochsHanded : \A io_ok \in BOOLEAN :
          \A r \in {store_commit_info(sw[n], e, io_ok)} :
              /\ DOMAIN r.w.tx.meta =
                    DOMAIN sw[n].tx.meta \cup {MetaKey(S) : S \in DOMAIN e.details}
              /\ \A S \in Sources :
                    IF S \in DOMAIN e.details
                    THEN StoredPos(r.w.tx.meta, S) = e.details[S]
                    ELSE Has(sw[n].tx.meta, MetaKey(S)) =>
                             r.w.tx.meta[MetaKey(S)] = sw[n].tx.meta[MetaKey(S)]
              /\ r.w.tx.dbs = sw[n].tx.dbs

\* an epoch that put s1 at (5, 3) and s2 at (258, 1) was followed by one
\* that names s1 alone: the entry of s1 is overwritten with (1, 2), that of
\* s2 is the one the first epoch wrote
C22_Witness ==
    /\ pc["p1"] = "run" /\ Len(chan["c3"]) = 2
    /\ CommitAt("c3") = {1, 2}
    /\ DOMAIN chan["c3"][1].epoch_details.details = Sources
    /\ DOMAIN chan["c3"][2].epoch_details.details = {"s1"}
    /\ Cardinality(DOMAIN sw["p1"].tx.meta) = 2
    /\ StoredPos(sw["p1"].tx.meta, "s1") = <<1, 2>>
    /\ StoredPos(sw["p1"].tx.meta, "s2") = <<258, 1>>


\* source s returned the error of store_and_send_commit for the epoch
\* advance had handed it
FailedInCommit(s) == pc[s] = "failed" /\ local[s] # NoEpoch

\* C23: a source whose store_and_send_commit failed for the epoch advance
\* handed it has returned the error and never arrived at the barrier of
\* that epoch; the barrier has not released and never does, no later epoch
\* is cut, and every live source blocked on that barrier stays blocked in
\* every step that follows.
C23_FailedSourceStallsBarrier ==
    /\ [](\A s \in cfg.live :
             FailedInCommit(s) =>
                 /\ result[s].tag = "Err"
                 /\ s \notin arrived[local[s].id]
                 /\ barrier[local[s].id].generation = 0
                 /\ em.curr_epoch = local[s].id + 1)
    /\ [][\A s \in cfg.live :
             FailedInCommit(s) =>
                 /\ pc'[s] = "failed" /\ local'[s] = local[s]
                 /\ \A t \in cfg.live :
                       (pc[t] = "wait" /\ local[t].id = local[s].id) =>
                           pc'[t] = "wait" /\ local'[t] = local[t]]_vars

\* s1 failed to persist its position for epoch 1 and s2, which has
\* committed for epoch 1, is blocked on its barrier
C23_Witness ==
    /\ cfg.live = Sources
    /\ FailedInCommit("s1") /\ local["s1"].id = 1
    /\ result["s1"] = RetErr("StorageError")
    /\ pc["s2"] = "wait" /\ local["s2"].id = 1 /\ 1 \in persisted["s2"]
    /\ arrived[1] = {"s2"} /\ barrier[1].count = 1 /\ barrier[1].n = 2


\* the epochs on whose barrier some source is blocked, the barrier not yet
\* released
BlockedOn == {local[s].id : s \in {t \in cfg.live : pc[t] = "wait"
                                      /\ barrier[local[t].id].generation = 0}}

Writes == {op \in Operations : op.kind \in {"Insert", "Update"}}

\* C25: on a port with a bound table and a schema, an Insert always
\* succeeds, and a successful Insert or Update stores new under the key of
\* new, overwriting what was there; whether the call succeeds or not, no
\* key is removed, every entry under another key is as it was (so the
\* record under the key of old, when that key differs from the key of new,
\* is still there), and the other tables and the metadata are untouched. A
\* failed call writes nothing.
C25_WritesNeverRemove ==
    \A n \in Nodes : \A port \in DbPorts(n) \cap SchemaPorts(n) :
        \A op \in Writes :
            \A st \in {store_op(sw[n].tx, n, op, port)} :
                LET db == sw[n].tx.dbs[port]
                    db1 == st.t.dbs[port]
                    key == get_key(op.new, primary_index)
                IN  /\ op.kind = "Insert" => st.ok
                    /\ IF st.ok
                       THEN /\ DOMAIN db1 = DOMAIN db \cup {key}
                            /\ deserialize(db1[key]) = op.new
                       ELSE st.t = sw[n].tx
                    /\ \A k \in DOMAIN db \ {key} : Has(db1, k) /\ db1[k] = db[k]
                    /\ (op.kind = "Update" /\ st.ok
                        /\ get_key(op.old, primary_index) # key
                        /\ Has(db, get_key(op.old, primary_index))) =>
                           db1[get_key(op.old, primary_index)] =
                               db[get_key(op.old, primary_index)]
                    /\ \A q \in DbPorts(n) \ {port} :
                          st.t.dbs[q] = sw[n].tx.dbs[q]
                    /\ st.t.meta = sw[n].tx.meta

\* after Insert (1, 7) the processor forwarded Update{old (1, 8), new (2, 7)}
\* on the same port: the table holds (2, 7) under key 2 and still holds
\* (1, 7) under key 1
C25_Witness ==
    /\ result["p1"] = RetOk(FALSE) /\ Len(chan["c3"]) = 2
    /\ chan["c3"][1] = [type |-> "Insert", new |-> <<1, 7>>]
    /\ chan["c3"][2].type = "Update" /\ chan["c3"][2].new = <<2, 7>>
    /\ DOMAIN sw["p1"].tx.dbs[1] = {<<1>>, <<2>>}
    /\ deserialize(sw["p1"].tx.dbs[1][<<1>>]) = <<1, 7>>
    /\ deserialize(sw["p1"].tx.dbs[1][<<2>>]) = <<2, 7>>


\* the place in the visiting order cs of the first consumer that is gone,
\* one past the end when all are connected
FirstDead(cs) ==
    IF \E i \in 1..Len(cs) : ~alive[cs[i]]
    THEN CHOOSE i \in 1..Len(cs) :
             ~alive[cs[i]] /\ \A j \in 1..(i - 1) : alive[cs[j]]
    ELSE Len(cs) + 1

\* r is the outcome of a broadcast of msg over cs that stopped at the first
\* consumer that is gone
StoppedAtFirstDead(r, cs, msg) ==
    /\ r.ok <=> FirstDead(cs) > Len(cs)
    /\ ~r.ok => r.err = "InternalError"
    /\ \A c \in Chans :
          r.m.chan[c] = IF \E i \in 1..(FirstDead(cs) - 1) : cs[i] = c
                        THEN Append(chan[c], msg)
                        ELSE chan[c]

\* C26: once the state writer has done its part, send_op,
\* store_and_send_commit and send_term_and_wait visit the consumers in
\* order and stop at the first one that is gone with an internal error:
\* the consumers before it have the message, it and those after it have
\* nothing; the write of send_op stays in the open transaction and the
\* checkpoint of store_and_send_commit stays committed.
C26_BroadcastStopsAtFailure ==
    \A n \in Nodes :
        /\ \A port \in DOMAIN senders(n) : \A op \in Operations :
              \A st \in {IF stateful[n] THEN store_op(sw[n].tx, n, op, port)
                         ELSE [ok |-> TRUE, op |-> op, t |-> sw[n].tx]} :
                  st.ok =>
                      \A r \in {send_op(Manager(n), n, op, port)} :
                          /\ StoppedAtFirstDead(r, senders(n)[port], ToExec(st.op))
                          /\ r.m.w.tx = st.t
                          /\ r.m.w.committed = sw[n].committed
        /\ \A order \in PortOrders(n) :
              /\ \A e \in EpochsHanded :
                    \A r \in {store_and_send_commit(Manager(n), n, e, TRUE, order)} :
                        /\ StoppedAtFirstDead(r, AllSenders(n, order), CommitMsg(e))
                        /\ r.stored
                        /\ r.m.w = store_commit_info(sw[n], e, TRUE).w
                        /\ r.m.w.committed.meta =
                              PutDetails(sw[n].tx.meta, e.details, DOMAIN e.details)
              /\ \A r \in {send_term_and_wait(Manager(n), n, order)} :
                    /\ StoppedAtFirstDead(r, AllSenders(n, order), TerminateMsg)
                    /\ r.m.w = sw[n]

\* the second consumer of port 1 was gone when the processor forwarded an
\* Insert: the call failed with an internal error, the first consumer has
\* the Insert, the second has nothing and the record is in the table
C26_Witness ==
    /\ alive["c3"] /\ ~alive["c4"]
    /\ pc["p1"] = "failed" /\ result["p1"] = RetErr("InternalError")
    /\ Len(chan["c3"]) = 1 /\ chan["c3"][1].type = "Insert"
    /\ chan["c4"] = <<>> /\ chan["c5"] = <<>>
    /\ sw["p1"].tx.dbs[1] # EmptyDb

====
